---------------------------- MODULE Spec2Model ----------------------------
(***************************************************************************)
(* A model of nanocoap (src/nanocoap/nanocoap.c): the CoAP message parser, *)
(* the option encoder and scanner, the reply builders and the blockwise    *)
(* (Block2) windowing engine.                                              *)
(*                                                                         *)
(* Memory is a sequence of bytes (0..255) indexed from 1; a C pointer into *)
(* a buffer is the index of the byte it points at and NULL is 0.  uint8_t  *)
(* and uint16_t values wrap at their width; uint32_t, size_t and int       *)
(* values stay far below 2^31 on every input of the model and are plain    *)
(* integers.  Host byte order is little-endian where the code copies host  *)
(* integers.                                                               *)
(***************************************************************************)
EXTENDS Integers, Sequences, FiniteSets, TLC

VARIABLES
    pc,     \* position of the operation under way
    args,   \* the arguments the operation was called with
    buf,    \* the byte memory the operation reads or writes
    pkt,    \* coap_pkt_t
    blk,    \* coap_blockwise_t
    opt,    \* coap_opt_t (out parameter of coap_find_option)
    ret,    \* the operation's return value
    loc     \* the operation's local variables, by their names in the source

vars == <<pc, args, buf, pkt, blk, opt, ret, loc>>

---------------------------------------------------------------------------
(* Machine arithmetic *)

U8 == 256
U16 == 65536

NULL == 0

EBADMSG == 74
ENOSPC == 28

Min(a, b) == IF a < b THEN a ELSE b

RECURSIVE Pow2(_)
Pow2(n) == IF n = 0 THEN 1 ELSE 2 * Pow2(n - 1)

RECURSIVE BitOr(_, _)
BitOr(a, b) ==
    IF a = 0 THEN b
    ELSE IF b = 0 THEN a
    ELSE (IF a % 2 = 1 \/ b % 2 = 1 THEN 1 ELSE 0) + 2 * BitOr(a \div 2, b \div 2)

RECURSIVE Concat(_)
Concat(ss) == IF ss = <<>> THEN <<>> ELSE Head(ss) \o Concat(Tail(ss))

Zeros(n) == [i \in 1..n |-> 0]

\* memcpy(dst + dpos, src + soff, n) where dst is the memory mem: n byte
\* stores
RECURSIVE memcpy(_, _, _, _, _)
memcpy(mem, dpos, src, soff, n) ==
    IF n <= 0 THEN mem
    ELSE [memcpy(mem, dpos, src, soff, n - 1) EXCEPT ![dpos + n - 1] = src[soff + n]]

\* *(mem + pos) = b
Store(mem, pos, b) == [mem EXCEPT ![pos] = b]

NoBlk == [start_pos |-> 0, end_pos |-> 0, cur_pos |-> 0]
NoOpt == [val |-> NULL, delta |-> 0, len |-> 0]
NoPkt == [tkl |-> 0]

---------------------------------------------------------------------------
(* Blockwise windowing engine *)

\* coap_blockwise_put_char with the window's first byte left out
coap_blockwise_put_char_off(b, mem, bufpos, c) ==
    IF b.start_pos < b.cur_pos /\ b.cur_pos < b.end_pos
    THEN [blk |-> [b EXCEPT !.cur_pos = b.cur_pos + 1],
          buf |-> Store(mem, bufpos, c), n |-> 1]
    ELSE [blk |-> [b EXCEPT !.cur_pos = b.cur_pos + 1],
          buf |-> mem, n |-> 0]

\* coap_blockwise_put_char(blk, bufpos, c): the cursor, the memory and the
\* return value after the call
coap_blockwise_put_char(b, mem, bufpos, c) ==
    IF b.start_pos <= b.cur_pos /\ b.cur_pos < b.end_pos
    THEN [blk |-> [b EXCEPT !.cur_pos = b.cur_pos + 1],
          buf |-> Store(mem, bufpos, c), n |-> 1]
    ELSE [blk |-> [b EXCEPT !.cur_pos = b.cur_pos + 1],
          buf |-> mem, n |-> 0]

\* coap_blockwise_put_string(blk, bufpos, c, len)
coap_blockwise_put_string(b, mem, bufpos, c, len) ==
    LET str_offset == IF b.start_pos > b.cur_pos
                      THEN b.start_pos - b.cur_pos ELSE 0
        skipped == [blk |-> [b EXCEPT !.cur_pos = b.cur_pos + len],
                    buf |-> mem, n |-> 0]
    IN  IF str_offset > len THEN skipped
        ELSE IF b.cur_pos >= b.end_pos THEN skipped
        ELSE LET str_len == IF b.cur_pos + len >= b.end_pos
                            THEN b.end_pos - b.cur_pos - str_offset
                            ELSE len - str_offset
             IN  [blk |-> [b EXCEPT !.cur_pos = b.cur_pos + len],
                  buf |-> memcpy(mem, bufpos, c, str_offset, str_len),
                  n |-> str_len]

---------------------------------------------------------------------------
(* A body generator run once per block: SpecBlockwise *)

MaxCalls == 3
MaxStrLen == 3
MaxBlock == 3

\* The argument of the i-th call of the generator: n = -1 is a put_char
\* call, n >= 0 a put_string call of n bytes.  Every byte of the body is
\* distinct, so a misplaced or missing byte shows.
CallData(i, n) == IF n = -1 THEN <<16 * i>> ELSE [j \in 1..n |-> 16 * i + j]

CallSeqs == UNION {[1..n -> (-1)..MaxStrLen] : n \in 0..MaxCalls}

\* The full logical body of a call sequence
Body(calls) == Concat([i \in 1..Len(calls) |-> CallData(i, calls[i])])

FreshCursor(k, size) ==
    [start_pos |-> k * size, end_pos |-> (k + 1) * size, cur_pos |-> 0]

BlockwiseInit ==
    \E calls \in CallSeqs :
      \E size \in (1..MaxBlock) \cup {Len(Body(calls))} :
        /\ pc = "block"
        /\ args = [calls |-> calls, blocksize |-> size]
        /\ buf = Zeros(Len(Body(calls)) + 1)
        /\ blk = FreshCursor(0, size)
        /\ loc = [k |-> 0, i |-> 1, bufpos |-> 1]
        /\ pkt = NoPkt /\ opt = NoOpt /\ ret = 0

\* bufpos += coap_blockwise_put_char(&blk, bufpos, c)
PutChar ==
    /\ pc = "block"
    /\ loc.i <= Len(args.calls)
    /\ args.calls[loc.i] = -1
    /\ LET r == coap_blockwise_put_char(blk, buf, loc.bufpos,
                                        CallData(loc.i, -1)[1])
       IN  /\ blk' = r.blk
           /\ buf' = r.buf
           /\ loc' = [loc EXCEPT !.i = @ + 1, !.bufpos = @ + r.n]
    /\ UNCHANGED <<pc, args, pkt, opt, ret>>

\* bufpos += coap_blockwise_put_string(&blk, bufpos, c, len)
PutString ==
    /\ pc = "block"
    /\ loc.i <= Len(args.calls)
    /\ args.calls[loc.i] >= 0
    /\ LET r == coap_blockwise_put_string(blk, buf, loc.bufpos,
                    CallData(loc.i, args.calls[loc.i]), args.calls[loc.i])
       IN  /\ blk' = r.blk
           /\ buf' = r.buf
           /\ loc' = [loc EXCEPT !.i = @ + 1, !.bufpos = @ + r.n]
    /\ UNCHANGED <<pc, args, pkt, opt, ret>>

\* The generator has run for block k: the next block starts with a fresh
\* cursor and the same call sequence, until a block lies past the body.
NextBlock ==
    /\ pc = "block"
    /\ loc.i > Len(args.calls)
    /\ loc.k * args.blocksize < blk.cur_pos
    /\ blk' = FreshCursor(loc.k + 1, args.blocksize)
    /\ loc' = [loc EXCEPT !.k = @ + 1, !.i = 1]
    /\ UNCHANGED <<pc, args, buf, pkt, opt, ret>>

LastBlock ==
    /\ pc = "block"
    /\ loc.i > Len(args.calls)
    /\ loc.k * args.blocksize >= blk.cur_pos
    /\ pc' = "done"
    /\ UNCHANGED <<args, buf, pkt, blk, opt, ret, loc>>

BlockwiseNext == PutChar \/ PutString \/ NextBlock \/ LastBlock

SpecBlockwise == BlockwiseInit /\ [][BlockwiseNext]_vars

\* C1: running the same put_char / put_string call sequence once per block
\* k = 0, 1, 2, ... with a fresh cursor over [k*B, (k+1)*B), and once over
\* [0, L), and concatenating what the runs wrote reproduces the body.
BlockwiseReassembly ==
    pc = "done" =>
        /\ SubSeq(buf, 1, loc.bufpos - 1) = Body(args.calls)
        /\ blk.cur_pos = Len(Body(args.calls))

\* A body of 7 bytes cut by strings that straddle block boundaries, and the
\* same body emitted through the single window [0, 7)
BlockwiseSplitBody ==
    /\ pc = "done"
    /\ args.calls = <<3, -1, 3>>
    /\ args.blocksize = 2
    /\ loc.k = 4

BlockwiseWholeBody ==
    /\ pc = "done"
    /\ args.blocksize = Len(Body(args.calls))
    /\ args.blocksize > MaxBlock

---------------------------------------------------------------------------
(* Option delta/length codec *)

\* *(mem + pos); the models size their memory so that every read the code
\* makes on a modelled input lies inside it
Rd(mem, pos) == mem[pos]

\* _decode_value(val, &pkt_pos, pkt_end): res < 0 is the error return, and
\* pkt_pos is the caller's position after the call.  left is a size_t, so a
\* position past pkt_end leaves it huge, never small.
_decode_value(val, mem, pkt_pos, pkt_end) ==
    LET left == pkt_end - pkt_pos
    IN  CASE val = 13 ->
               IF 0 <= left /\ left < 1
               THEN [res |-> -ENOSPC, pkt_pos |-> pkt_pos]
               ELSE [res |-> Rd(mem, pkt_pos) + 13, pkt_pos |-> pkt_pos + 1]
          [] val = 14 ->
               IF 0 <= left /\ left < 2
               THEN [res |-> -ENOSPC, pkt_pos |-> pkt_pos]
               ELSE [res |-> Rd(mem, pkt_pos) * 256 + Rd(mem, pkt_pos + 1) + 269,
                     pkt_pos |-> pkt_pos + 2]
          [] val = 15 -> [res |-> -EBADMSG, pkt_pos |-> pkt_pos]
          [] OTHER -> [res |-> val, pkt_pos |-> pkt_pos]

\* _decode_uint(pkt_pos, nbytes): the big-endian value of nbytes <= 4 bytes
RECURSIVE _decode_uint(_, _, _)
_decode_uint(mem, pkt_pos, nbytes) ==
    IF nbytes = 0 THEN 0
    ELSE 256 * _decode_uint(mem, pkt_pos, nbytes - 1) + Rd(mem, pkt_pos + nbytes - 1)

\* _put_odelta(buf, lastonum, onum, olen): the memory and the number of
\* bytes written.  delta is unsigned; tmp is a uint16_t.
_put_odelta(mem, pos, lastonum, onum, olen) ==
    LET delta == onum - lastonum
    IN  IF delta < 13
        THEN [buf |-> Store(mem, pos, BitOr(delta * 16, olen) % U8), n |-> 1]
        ELSE IF delta = 13
        THEN [buf |-> Store(Store(mem, pos, BitOr(13 * 16, olen) % U8),
                            pos + 1, (delta - 13) % U8),
              n |-> 2]
        ELSE LET tmp == (delta - 269) % U16
             IN  [buf |-> Store(Store(Store(mem, pos, BitOr(14 * 16, olen) % U8),
                                      pos + 1, tmp \div 256),
                                pos + 2, tmp % 256),
                  n |-> 3]

\* coap_put_option(buf, lastonum, onum, odata, olen)
coap_put_option(mem, pos, lastonum, onum, odata, olen) ==
    LET h == _put_odelta(mem, pos, lastonum, onum, olen)
    IN  IF olen # 0
        THEN [buf |-> memcpy(h.buf, pos + h.n, odata, 0, olen), n |-> h.n + olen]
        ELSE h

---------------------------------------------------------------------------
(* Options written by coap_put_option and read back: SpecOption *)

MaxOptions == 2

\* Deltas around the thresholds 13 and 269 of the encoding, lengths around
\* the threshold 13
OptionDeltas == {0, 1, 12, 13, 14, 268, 269, 270}
OptionLens == {0, 1, 12, 13}

OptionData(olen) == [j \in 1..olen |-> 160 + j]

OptionSeqs ==
    UNION {[1..n -> [delta : OptionDeltas, len : OptionLens]] : n \in 0..MaxOptions}

WireSize == 40

OptionInit ==
    \E os \in OptionSeqs :
        /\ pc = "put"
        /\ args = [options |-> os]
        /\ buf = Zeros(WireSize)
        /\ loc = [i |-> 1, bufpos |-> 1, lastonum |-> 0,
                  pkt_pos |-> 1, pkt_end |-> 1, decoded |-> <<>>]
        /\ pkt = NoPkt /\ blk = NoBlk /\ opt = NoOpt /\ ret = 0

\* bufpos += coap_put_option(bufpos, lastonum, onum, odata, olen), for the
\* next option of the sequence, numbers non-decreasing
PutOption ==
    /\ pc = "put"
    /\ loc.i <= Len(args.options)
    /\ LET o == args.options[loc.i]
           onum == loc.lastonum + o.delta
           r == coap_put_option(buf, loc.bufpos, loc.lastonum, onum,
                                OptionData(o.len), o.len)
       IN  /\ buf' = r.buf
           /\ loc' = [loc EXCEPT !.i = @ + 1, !.bufpos = @ + r.n,
                                 !.lastonum = onum]
    /\ UNCHANGED <<pc, args, pkt, blk, opt, ret>>

\* All options are written: the reader starts at the first byte and stops at
\* the last byte written.
PutDone ==
    /\ pc = "put"
    /\ loc.i > Len(args.options)
    /\ pc' = "decode"
    /\ loc' = [loc EXCEPT !.pkt_pos = 1, !.pkt_end = loc.bufpos]
    /\ UNCHANGED <<args, buf, pkt, blk, opt, ret>>

\* One turn of the parser's option loop: the option byte, its delta and its
\* length through _decode_value, then the value bytes
DecodeOption ==
    /\ pc = "decode"
    /\ loc.pkt_pos < loc.pkt_end
    /\ LET option_byte == Rd(buf, loc.pkt_pos)
           d == _decode_value(option_byte \div 16, buf, loc.pkt_pos + 1, loc.pkt_end)
           l == _decode_value(option_byte % 16, buf, d.pkt_pos, loc.pkt_end)
       IN  IF d.res < 0 \/ l.res < 0
           THEN /\ pc' = "error"
                /\ ret' = -EBADMSG
                /\ loc' = loc
           ELSE IF l.pkt_pos + l.res > loc.pkt_end
           THEN \* the value is read from past the last byte written
                /\ pc' = "overread"
                /\ ret' = ret
                /\ loc' = loc
           ELSE /\ pc' = pc
                /\ ret' = ret
                /\ loc' = [loc EXCEPT
                       !.pkt_pos = l.pkt_pos + l.res,
                       !.decoded = Append(@,
                           [delta |-> d.res, len |-> l.res,
                            val |-> SubSeq(buf, l.pkt_pos, l.pkt_pos + l.res - 1)])]
    /\ UNCHANGED <<args, buf, pkt, blk, opt>>

DecodeDone ==
    /\ pc = "decode"
    /\ loc.pkt_pos >= loc.pkt_end
    /\ pc' = "done"
    /\ UNCHANGED <<args, buf, pkt, blk, opt, ret, loc>>

OptionNext == PutOption \/ PutDone \/ DecodeOption \/ DecodeDone

SpecOption == OptionInit /\ [][OptionNext]_vars

\* C3: every sequence of options written by coap_put_option decodes, through
\* _decode_value, to the same deltas, lengths and value bytes.
OptionRoundTrip ==
    /\ pc \notin {"error", "overread"}
    /\ pc = "done" =>
           loc.decoded = [i \in 1..Len(args.options) |->
                             [delta |-> args.options[i].delta,
                              len |-> args.options[i].len,
                              val |-> OptionData(args.options[i].len)]]

\* The part of C3 the code keeps: deltas up to 13 and from 269 on, with
\* lengths below 13, do round-trip.
OptionRoundTripSmall ==
    (/\ pc = "done"
     /\ \A i \in 1..Len(args.options) :
            /\ args.options[i].delta \notin 14..268
            /\ args.options[i].len < 13)
    => loc.decoded = [i \in 1..Len(args.options) |->
                         [delta |-> args.options[i].delta,
                          len |-> args.options[i].len,
                          val |-> OptionData(args.options[i].len)]]

---------------------------------------------------------------------------
(* Option scanner *)

\* _decode_optlen(buf, val): the uint16_t *val after the call and the number
\* of extension bytes
_decode_optlen(mem, pos, val) ==
    IF val = 13
    THEN [val |-> (val + Rd(mem, pos)) % U16, len |-> 1]
    ELSE IF val = 14
    THEN [val |-> (Rd(mem, pos) * 256 + Rd(mem, pos + 1) + 269) % U16, len |-> 2]
    ELSE [val |-> val, len |-> 0]

\* _parse_opt(optpos, opt): the return value and *opt after the call
_parse_opt(mem, optpos) ==
    LET raw == [val |-> optpos + 1,
                delta |-> Rd(mem, optpos) \div 16,
                len |-> Rd(mem, optpos) % 16]
    IN  IF raw.delta = 15 \/ raw.len = 15
        THEN [res |-> -1, opt |-> raw]
        ELSE LET d == _decode_optlen(mem, raw.val, raw.delta)
                 l == _decode_optlen(mem, raw.val + d.len, raw.len)
                 val == raw.val + d.len + l.len
             IN  [res |-> (val - optpos) + l.val,
                  opt |-> [val |-> val, delta |-> d.val, len |-> l.val]]

\* The do-while loop of coap_find_option, delta a uint16_t
RECURSIVE find_option_loop(_, _, _, _, _, _)
find_option_loop(mem, payload_pos, bufpos, o, delta, optnum) ==
    IF bufpos >= payload_pos
    THEN [ret |-> NULL, opt |-> o]
    ELSE LET r == _parse_opt(mem, bufpos)
             d == (delta + r.opt.delta) % U16
         IN  IF r.res < 0
             THEN [ret |-> NULL, opt |-> r.opt]
             ELSE IF d < optnum
             THEN find_option_loop(mem, payload_pos, bufpos + r.res, r.opt, d, optnum)
             ELSE [ret |-> IF d # optnum THEN NULL ELSE bufpos + r.res,
                   opt |-> r.opt]

\* coap_find_option(payload_pos, bufpos, opt, optnum): the return value
\* (NULL: not found) and *opt after the call
coap_find_option(mem, payload_pos, bufpos, o, optnum) ==
    IF bufpos = NULL \/ Rd(mem, bufpos) = 255
    THEN [ret |-> NULL, opt |-> o]
    ELSE find_option_loop(mem, payload_pos, bufpos, o, 0, optnum)

---------------------------------------------------------------------------
(* coap_find_option over arbitrary option bytes: SpecFind *)

MaxFindLen == 3

\* Option bytes with plain and extended (13, 14) and reserved (15) nibbles,
\* the payload marker, and bytes that serve as extension values
FindBytes == {0, 1, 13, 16, 208, 224, 255, 31}
FindTails == {<<0, 0, 0, 0>>, <<255, 1, 16, 0>>}
FindTargets == {0, 1, 2, 13, 269}

\* The memory holds MaxFindLen arbitrary bytes and four more behind them,
\* so an option that starts before payload_pos has its extension bytes in
\* memory.
FindInit ==
    \E region \in [1..MaxFindLen -> FindBytes], tail \in FindTails,
       pp \in 1..(MaxFindLen + 1), start \in {NULL, 1}, t \in FindTargets :
        /\ pc = "find"
        /\ args = [payload_pos |-> pp, bufpos |-> start, optnum |-> t]
        /\ buf = region \o tail
        /\ opt = NoOpt
        /\ ret = 0
        /\ pkt = NoPkt /\ blk = NoBlk /\ loc = <<>>

FindOption ==
    /\ pc = "find"
    /\ LET r == coap_find_option(buf, args.payload_pos, args.bufpos, opt, args.optnum)
       IN  /\ ret' = r.ret
           /\ opt' = r.opt
    /\ pc' = "found"
    /\ UNCHANGED <<args, buf, pkt, blk, loc>>

FindNext == FindOption

SpecFind == FindInit /\ [][FindNext]_vars

\* The extended value of a nibble as the wire format defines it
WireValue(mem, pos, nibble) ==
    IF nibble = 13 THEN mem[pos] + 13
    ELSE IF nibble = 14 THEN mem[pos] * 256 + mem[pos + 1] + 269
    ELSE nibble

WireExt(nibble) == IF nibble = 13 THEN 1 ELSE IF nibble = 14 THEN 2 ELSE 0

\* What C6 says the scan reports: one forward pass that adds each option's
\* delta to a running absolute number
RECURSIVE ScanFor(_, _, _, _, _)
ScanFor(mem, payload_pos, pos, number, target) ==
    IF pos >= payload_pos \/ mem[pos] = 255
       \/ mem[pos] \div 16 = 15 \/ mem[pos] % 16 = 15
    THEN [found |-> FALSE]
    ELSE LET dn == mem[pos] \div 16
             ln == mem[pos] % 16
             delta == WireValue(mem, pos + 1, dn)
             len == WireValue(mem, pos + 1 + WireExt(dn), ln)
             val == pos + 1 + WireExt(dn) + WireExt(ln)
         IN  IF number + delta < target
             THEN ScanFor(mem, payload_pos, val + len, number + delta, target)
             ELSE IF number + delta = target
             THEN [found |-> TRUE, val |-> val, len |-> len]
             ELSE [found |-> FALSE]

\* C6: coap_find_option reports found, with the option's value position and
\* length, exactly when the first option whose running absolute number is
\* >= the target has the target's number and starts before payload_start and
\* before any marker; else not found.
FindMatchesScan ==
    pc = "found" =>
        LET want == IF args.bufpos = NULL THEN [found |-> FALSE]
                    ELSE ScanFor(buf, args.payload_pos, args.bufpos, 0, args.optnum)
        IN  /\ (ret # NULL) = want.found
            /\ want.found => opt.val = want.val /\ opt.len = want.len

\* The same, for option streams whose deltas and lengths keep the running
\* number and the length below 2^16
FindMatchesScan16 ==
    (pc = "found" /\ \A i \in 1..(MaxFindLen - 1) :
                        ~(buf[i] \div 16 = 14 /\ buf[i + 1] = 255)
                        /\ ~(buf[i] % 16 = 14 /\ buf[i + 1] = 255)) =>
        LET want == IF args.bufpos = NULL THEN [found |-> FALSE]
                    ELSE ScanFor(buf, args.payload_pos, args.bufpos, 0, args.optnum)
        IN  /\ (ret # NULL) = want.found
            /\ want.found => opt.val = want.val /\ opt.len = want.len

---------------------------------------------------------------------------
(* Packet parser *)

COAP_OPT_OBSERVE == 6
COAP_OPT_URI_PATH == 11
COAP_OPT_CONTENT_FORMAT == 12
COAP_OPT_URI_QUERY == 15
COAP_OPT_BLOCK2 == 23

COAP_BLOCKWISE_NUM_OFF == 4
COAP_BLOCKWISE_MORE_OFF == 3
COAP_BLOCKWISE_SZX_MASK == 7
COAP_BLOCKWISE_SZX_MAX == 6

\* The value observe_value is set to before the options are read: UINT32_MAX,
\* which no option of at most 3 bytes decodes to
UINT32_MAX == -1

HDR_LEN == 4

\* coap_get_token_len(pkt): the low four bits of the header's first byte
coap_get_token_len(mem) == mem[1] % 16

\* Whether the n bytes at pos lie in the modelled memory
InMem(mem, pos, n) == n = 0 \/ (1 <= pos /\ pos + n - 1 <= Len(mem))

\* The number of extension bytes _decode_value reads at pkt_pos
DecodeReads(val, pkt_pos, pkt_end) ==
    LET left == pkt_end - pkt_pos
    IN  IF val = 13 THEN (IF 0 <= left /\ left < 1 THEN 0 ELSE 1)
        ELSE IF val = 14 THEN (IF 0 <= left /\ left < 2 THEN 0 ELSE 2)
        ELSE 0

\* The number of value bytes the parser's switch reads for option option_nr
ValueReads(option_nr, option_len) ==
    CASE option_nr = COAP_OPT_URI_PATH -> option_len
      [] option_nr = COAP_OPT_CONTENT_FORMAT ->
             IF option_len \in {1, 2} THEN option_len ELSE 0
      [] option_nr \in {COAP_OPT_OBSERVE, COAP_OPT_BLOCK2} ->
             IF option_len < 4 THEN option_len ELSE 0
      [] OTHER -> 0

\* The switch (option_nr) of coap_parse: the packet after it and whether the
\* parser returns -EBADMSG
parse_switch(mem, p, pkt_pos, option_nr, option_len) ==
    CASE option_nr = COAP_OPT_URI_PATH ->
             [bad |-> FALSE,
              pkt |-> [p EXCEPT !.url = @ \o <<47>>
                          \o SubSeq(mem, pkt_pos, pkt_pos + option_len - 1)]]
      [] option_nr = COAP_OPT_CONTENT_FORMAT ->
             [bad |-> FALSE,
              pkt |-> IF option_len = 0 THEN [p EXCEPT !.content_type = 0]
                      ELSE IF option_len = 1
                      THEN [p EXCEPT !.content_type = mem[pkt_pos]]
                      ELSE IF option_len = 2
                      THEN [p EXCEPT !.content_type =
                                        mem[pkt_pos] * 256 + mem[pkt_pos + 1]]
                      ELSE p]
      [] option_nr = COAP_OPT_OBSERVE ->
             IF option_len < 4
             THEN [bad |-> FALSE,
                   pkt |-> [p EXCEPT !.observe_value =
                                        _decode_uint(mem, pkt_pos, option_len)]]
             ELSE [bad |-> TRUE, pkt |-> p]
      [] option_nr = COAP_OPT_BLOCK2 ->
             IF option_len < 4
             THEN LET blk2_opt == _decode_uint(mem, pkt_pos, option_len)
                      blk2_size == ((blk2_opt % (COAP_BLOCKWISE_SZX_MASK + 1)) + 4) % U8
                  IN  [bad |-> blk2_size > 10, pkt |-> p]
             ELSE [bad |-> TRUE, pkt |-> p]
      [] OTHER -> [bad |-> option_nr % 2 = 1, pkt |-> p]

---------------------------------------------------------------------------
(* coap_parse over arbitrary messages: SpecParse *)

MaxTail == 4

\* Bytes after the 4-byte header: elective and critical unknown options,
\* Content-Format, an extended delta reaching Block2, a length that needs
\* value bytes, the payload marker, a reserved nibble
ParseBytes == {0, 1, 16, 193, 209, 10, 7, 255, 100}

\* What the packet structure holds from an earlier use
PriorContentTypes == {0, 40}

\* buf holds the header, then MaxTail bytes; the message is its first
\* args.len bytes and the rest is the memory that happens to follow it.
ParseInit ==
    \E tkl \in {0, 1}, tail \in [1..MaxTail -> ParseBytes],
       len \in HDR_LEN..(HDR_LEN + MaxTail), ct \in PriorContentTypes :
        /\ pc = "parse"
        /\ args = [len |-> len]
        /\ buf = <<64 + tkl, 1, 0, 1>> \o tail
        /\ pkt = [tkl |-> tkl, url |-> <<>>, payload_len |-> 0,
                  observe_value |-> 0, token |-> NULL, options |-> NULL,
                  payload |-> NULL, content_type |-> ct]
        /\ loc = [pkt_pos |-> 0, pkt_end |-> 0, option_nr |-> 0, seen |-> <<>>]
        /\ blk = NoBlk /\ opt = NoOpt /\ ret = 0

\* coap_parse up to the option loop.  loc.seen lists the option numbers the
\* loop has dispatched on, for the properties; the code keeps no such list.
ParseStart ==
    /\ pc = "parse"
    /\ LET tkl == coap_get_token_len(buf)
           pkt_pos == IF tkl # 0 THEN HDR_LEN + 1 + tkl ELSE HDR_LEN + 1
           pkt_end == args.len + 1
       IN  /\ pkt' = [pkt EXCEPT !.url = <<>>, !.payload_len = 0,
                                 !.observe_value = UINT32_MAX,
                                 !.token = IF tkl # 0 THEN HDR_LEN + 1 ELSE NULL,
                                 !.options = IF pkt_pos # pkt_end THEN pkt_pos ELSE NULL]
           /\ loc' = [loc EXCEPT !.pkt_pos = pkt_pos, !.pkt_end = pkt_end,
                                 !.option_nr = 0]
    /\ pc' = "options"
    /\ UNCHANGED <<args, buf, blk, opt, ret>>

\* One turn of while (pkt_pos != pkt_end).  A read past the modelled memory
\* is not followed ("beyond"); a read past pkt_end inside it yields whatever
\* byte lies there.
ParseOption ==
    /\ pc = "options"
    /\ loc.pkt_pos # loc.pkt_end
    /\ UNCHANGED <<args, buf, blk, opt>>
    /\ IF ~InMem(buf, loc.pkt_pos, 1)
       THEN pc' = "beyond" /\ UNCHANGED <<pkt, loc, ret>>
       ELSE
       LET option_byte == buf[loc.pkt_pos]
           p1 == loc.pkt_pos + 1
       IN  IF option_byte = 255
           THEN /\ pkt' = [pkt EXCEPT !.payload = p1,
                                      !.payload_len = loc.pkt_end - p1]
                /\ loc' = [loc EXCEPT !.pkt_pos = p1]
                /\ ret' = 0
                /\ pc' = "parsed"
           ELSE IF ~InMem(buf, p1, DecodeReads(option_byte \div 16, p1, loc.pkt_end))
           THEN pc' = "beyond" /\ UNCHANGED <<pkt, loc, ret>>
           ELSE
           LET d == _decode_value(option_byte \div 16, buf, p1, loc.pkt_end)
           IN  IF d.res < 0
               THEN /\ pc' = "rejected" /\ ret' = -EBADMSG
                    /\ loc' = [loc EXCEPT !.pkt_pos = p1]
                    /\ pkt' = pkt
               ELSE IF ~InMem(buf, d.pkt_pos,
                              DecodeReads(option_byte % 16, d.pkt_pos, loc.pkt_end))
               THEN pc' = "beyond" /\ UNCHANGED <<pkt, loc, ret>>
               ELSE
               LET l == _decode_value(option_byte % 16, buf, d.pkt_pos, loc.pkt_end)
                   option_nr == loc.option_nr + d.res
               IN  IF l.res < 0
                   THEN /\ pc' = "rejected" /\ ret' = -EBADMSG
                        /\ loc' = [loc EXCEPT !.pkt_pos = d.pkt_pos]
                        /\ pkt' = pkt
                   ELSE IF ~InMem(buf, l.pkt_pos, ValueReads(option_nr, l.res))
                   THEN pc' = "beyond" /\ UNCHANGED <<pkt, loc, ret>>
                   ELSE
                   LET sw == parse_switch(buf, pkt, l.pkt_pos, option_nr, l.res)
                   IN  /\ pkt' = sw.pkt
                       /\ IF sw.bad
                          THEN /\ pc' = "rejected" /\ ret' = -EBADMSG
                               /\ loc' = [loc EXCEPT !.pkt_pos = l.pkt_pos,
                                                     !.option_nr = option_nr,
                                                     !.seen = Append(@, option_nr)]
                          ELSE /\ pc' = pc /\ ret' = ret
                               /\ loc' = [loc EXCEPT !.pkt_pos = l.pkt_pos + l.res,
                                                     !.option_nr = option_nr,
                                                     !.seen = Append(@, option_nr)]

\* The loop ends with pkt_pos == pkt_end: the payload pointer is set to the
\* end of the buffer and coap_parse returns 0.
ParseReturn ==
    /\ pc = "options"
    /\ loc.pkt_pos = loc.pkt_end
    /\ pkt' = [pkt EXCEPT !.payload = loc.pkt_end]
    /\ ret' = 0
    /\ pc' = "parsed"
    /\ UNCHANGED <<args, buf, blk, opt, loc>>

ParseNext == ParseStart \/ ParseOption \/ ParseReturn

SpecParse == ParseInit /\ [][ParseNext]_vars

\* The option chain of the message mem[1..pkt_end-1] from pos on, read as
\* the wire format defines it and never past the message's last byte:
\*   bad   a structural violation C5 lists is in the chain
\*   cut   the chain stops at an option whose value is cut by the message end
\*   nrs   the absolute numbers of the options up to there
RECURSIVE Chain(_, _, _, _, _)
Chain(mem, pos, pkt_end, number, nrs) ==
    IF pos >= pkt_end \/ mem[pos] = 255
    THEN [bad |-> FALSE, cut |-> FALSE, nrs |-> nrs]
    ELSE
    LET dn == mem[pos] \div 16
        ln == mem[pos] % 16
        val == pos + 1 + WireExt(dn) + WireExt(ln)
    IN  IF dn = 15 \/ ln = 15 \/ val > pkt_end
        THEN [bad |-> TRUE, cut |-> FALSE, nrs |-> nrs]
        ELSE
        LET nr == number + WireValue(mem, pos + 1, dn)
            len == WireValue(mem, pos + 1 + WireExt(dn), ln)
            known == {COAP_OPT_OBSERVE, COAP_OPT_URI_PATH,
                      COAP_OPT_CONTENT_FORMAT, COAP_OPT_BLOCK2}
        IN  IF \/ nr \notin known /\ nr % 2 = 1
               \/ nr \in {COAP_OPT_OBSERVE, COAP_OPT_BLOCK2} /\ len >= 4
            THEN [bad |-> TRUE, cut |-> FALSE, nrs |-> Append(nrs, nr)]
            ELSE IF val + len > pkt_end
            THEN [bad |-> FALSE, cut |-> TRUE, nrs |-> Append(nrs, nr)]
            ELSE IF nr = COAP_OPT_BLOCK2 /\ len > 0 /\ (mem[val + len - 1] % 8) + 4 > 10
            THEN [bad |-> TRUE, cut |-> FALSE, nrs |-> Append(nrs, nr)]
            ELSE Chain(mem, val + len, pkt_end, nr, Append(nrs, nr))

\* The chain of the message in buf; a token cut by the message end leaves
\* no chain
MessageChain ==
    LET first == HDR_LEN + 1 + coap_get_token_len(buf)
    IN  IF first > args.len + 1
        THEN [bad |-> FALSE, cut |-> TRUE, nrs |-> <<>>]
        ELSE Chain(buf, first, args.len + 1, 0, <<>>)

\* Whether a number is one the parser does not recognise and is elective
ElectiveUnknown(nr) ==
    /\ nr % 2 = 0
    /\ nr \notin {COAP_OPT_OBSERVE, COAP_OPT_CONTENT_FORMAT}

\* C5: coap_parse rejects a message whose option chain holds a reserved
\* nibble, a truncated extension, an unknown critical option, an Observe or
\* Block2 option of 4 or more bytes or a Block2 size exponent above 10; an
\* unknown elective option never causes rejection: it is skipped, the
\* parse succeeds and the options are read with the right running numbers.
ParseRejectsMalformedOnly ==
    pc \in {"parsed", "rejected", "beyond"} =>
        /\ MessageChain.bad => pc = "rejected" /\ ret = -EBADMSG
        /\ (/\ ~MessageChain.bad
            /\ \E i \in 1..Len(MessageChain.nrs) : ElectiveUnknown(MessageChain.nrs[i]))
           => /\ pc = "parsed" /\ ret = 0
              /\ loc.seen = MessageChain.nrs

\* The first half of C5 holds on every message.
ParseRejectsMalformed ==
    (pc \in {"parsed", "rejected", "beyond"} /\ MessageChain.bad)
        => pc = "rejected" /\ ret = -EBADMSG

\* What holds of C5: on messages whose token and option values all lie
\* inside the buffer, the parser rejects exactly the malformed ones.
ParseRejectsMalformedInBuffer ==
    (pc \in {"parsed", "rejected"} /\ ~MessageChain.cut) =>
        /\ MessageChain.bad => pc = "rejected" /\ ret = -EBADMSG
        /\ ~MessageChain.bad => pc = "parsed" /\ ret = 0 /\ loc.seen = MessageChain.nrs
        /\ loc.pkt_pos <= loc.pkt_end

ParseNeverBeyondInBuffer ==
    ~MessageChain.cut => pc # "beyond"

\* C9: after a successful parse the content-format is 0 when the message
\* has no Content-Format option, whatever the structure held before, and
\* the option's big-endian value when it has one of 0, 1 or 2 bytes.
ParseContentFormatDefault ==
    (pc = "parsed" /\ ~MessageChain.cut) =>
        /\ (\A i \in 1..Len(loc.seen) : loc.seen[i] # COAP_OPT_CONTENT_FORMAT)
               => pkt.content_type = 0
        /\ MessageChain.nrs = <<COAP_OPT_CONTENT_FORMAT>> /\ buf[HDR_LEN + 1 + pkt.tkl] = 193
               => pkt.content_type = buf[HDR_LEN + 2 + pkt.tkl]

\* What holds of C9: a Content-Format option of one byte sets the field
ParseContentFormatPresent ==
    (pc = "parsed" /\ ~MessageChain.cut
        /\ MessageChain.nrs = <<COAP_OPT_CONTENT_FORMAT>>
        /\ buf[HDR_LEN + 1 + pkt.tkl] = 193)
    => pkt.content_type = buf[HDR_LEN + 2 + pkt.tkl]

\* C10: the read position of coap_parse never passes the end of the buffer
ParsePositionInBuffer ==
    pc \in {"options", "parsed", "rejected", "beyond"} => loc.pkt_pos <= loc.pkt_end

---------------------------------------------------------------------------
(* coap_blockwise_init on parsed requests: SpecInit *)

\* coap_blockwise_init without the "use the smallest block size" step
coap_blockwise_init_nomin(mem, p) ==
    LET f == coap_find_option(mem, p.payload, p.options, NoOpt, COAP_OPT_BLOCK2)
        blk2_opt == _decode_uint(mem, f.opt.val, f.opt.len)
        blk2_num == IF f.ret # NULL
                    THEN blk2_opt \div Pow2(COAP_BLOCKWISE_NUM_OFF) ELSE 0
        blk2_size == IF f.ret # NULL
                     THEN ((blk2_opt % (COAP_BLOCKWISE_SZX_MASK + 1)) + 4) % U8
                     ELSE COAP_BLOCKWISE_SZX_MAX
        start == (blk2_num * 1) * Pow2(blk2_size)
    IN  [start_pos |-> start, end_pos |-> start + Pow2(blk2_size), cur_pos |-> 0]

\* coap_blockwise_init(pkt, blk): *blk after the call
coap_blockwise_init(mem, p) ==
    LET f == coap_find_option(mem, p.payload, p.options, NoOpt, COAP_OPT_BLOCK2)
        blk2_opt == _decode_uint(mem, f.opt.val, f.opt.len)
        blk2_num == IF f.ret # NULL
                    THEN blk2_opt \div Pow2(COAP_BLOCKWISE_NUM_OFF) ELSE 0
        requested == IF f.ret # NULL
                     THEN ((blk2_opt % (COAP_BLOCKWISE_SZX_MASK + 1)) + 4) % U8
                     ELSE COAP_BLOCKWISE_SZX_MAX
        blk2_size == IF COAP_BLOCKWISE_SZX_MAX > requested
                     THEN requested ELSE COAP_BLOCKWISE_SZX_MAX
        start == (blk2_num * 1) * Pow2(blk2_size)
    IN  [start_pos |-> start, end_pos |-> start + Pow2(blk2_size), cur_pos |-> 0]

MaxReqOptions == 2

\* The value of a Block option: NUM above bit 3, M bit 3, SZX the low three
\* bits, as a big-endian integer in the fewest bytes
UintBytes(v) ==
    IF v = 0 THEN <<>>
    ELSE IF v < 256 THEN <<v>>
    ELSE IF v < 65536 THEN <<v \div 256, v % 256>>
    ELSE <<v \div 65536, (v \div 256) % 256, v % 256>>

Block2Value(num, m, szx) == UintBytes(num * 16 + m * 8 + szx)

\* One option on the wire as the format defines it: nibbles, extension
\* bytes, value
WireNibble(v) == IF v < 13 THEN v ELSE IF v < 269 THEN 13 ELSE 14

WireNibbleExt(v) ==
    IF v < 13 THEN <<>>
    ELSE IF v < 269 THEN <<v - 13>>
    ELSE <<(v - 269) \div 256, (v - 269) % 256>>

WireOption(delta, val) ==
    <<WireNibble(delta) * 16 + WireNibble(Len(val))>>
        \o WireNibbleExt(delta) \o WireNibbleExt(Len(val)) \o val

RECURSIVE WireOptions(_, _)
WireOptions(os, last) ==
    IF os = <<>> THEN <<>>
    ELSE WireOption(Head(os).nr - last, Head(os).val)
             \o WireOptions(Tail(os), Head(os).nr)

\* The options a request may carry: Observe, Uri-Path, Content-Format, an
\* elective option the parser does not know (Size1, 60), and Block2
ReqBlock2 ==
    {[nr |-> COAP_OPT_BLOCK2, val |-> Block2Value(num, m, szx),
      num |-> num, szx |-> szx] :
        num \in {0, 2, 16}, m \in {0, 1}, szx \in {0, 2, 3, 6}}

ReqOther ==
    {[nr |-> COAP_OPT_OBSERVE, val |-> <<>>, num |-> 0, szx |-> 0],
     [nr |-> COAP_OPT_URI_PATH, val |-> <<97>>, num |-> 0, szx |-> 0],
     [nr |-> COAP_OPT_CONTENT_FORMAT, val |-> <<40>>, num |-> 0, szx |-> 0],
     [nr |-> 60, val |-> <<1>>, num |-> 0, szx |-> 0]}

ReqOptionSeqs ==
    {os \in UNION {[1..n -> ReqBlock2 \cup ReqOther] : n \in 0..MaxReqOptions} :
        \A i \in 1..(Len(os) - 1) : os[i].nr <= os[i + 1].nr}

\* A well-formed request: header, token, options in number order, and a
\* payload or none
InitInit ==
    \E os \in ReqOptionSeqs, tkl \in {0, 1}, payload \in {<<>>, <<255, 1>>} :
        /\ pc = "parse"
        /\ buf = <<64 + tkl, 1, 0, 1>> \o [i \in 1..tkl |-> 170]
                     \o WireOptions(os, 0) \o payload
        /\ args = [len |-> Len(buf), options |-> os]
        /\ pkt = [tkl |-> tkl, url |-> <<>>, payload_len |-> 0,
                  observe_value |-> 0, token |-> NULL, options |-> NULL,
                  payload |-> NULL, content_type |-> 0]
        /\ loc = [pkt_pos |-> 0, pkt_end |-> 0, option_nr |-> 0, seen |-> <<>>]
        /\ blk = NoBlk /\ opt = NoOpt /\ ret = 0

\* coap_blockwise_init(pkt, &blk) on the packet coap_parse returned
BlockwiseInitCall ==
    /\ pc = "parsed"
    /\ ret = 0
    /\ blk' = coap_blockwise_init(buf, pkt)
    /\ pc' = "windowed"
    /\ UNCHANGED <<args, buf, pkt, opt, ret, loc>>

InitNext == ParseStart \/ ParseOption \/ ParseReturn \/ BlockwiseInitCall

SpecInit == InitInit /\ [][InitNext]_vars

\* The request's first Block2 option, if it has one
FirstBlock2(os) ==
    LET at == {i \in 1..Len(os) : os[i].nr = COAP_OPT_BLOCK2}
    IN  IF at = {} THEN [present |-> FALSE]
        ELSE LET i == CHOOSE j \in at : \A k \in at : j <= k
             IN  [present |-> TRUE, num |-> os[i].num, szx |-> os[i].szx]

\* C4: coap_blockwise_init yields cur = 0, block size = min(requested size,
\* configured maximum) (the maximum, with NUM = 0, without a Block2 option),
\* start = NUM * block size and end = start + block size.
BlockwiseInitWindow ==
    /\ pc \notin {"rejected", "beyond"}
    /\ pc = "windowed" =>
        LET b == FirstBlock2(args.options)
            max_size == Pow2(COAP_BLOCKWISE_SZX_MAX)
            size == IF b.present THEN Min(Pow2(b.szx + 4), max_size) ELSE max_size
            num == IF b.present THEN b.num ELSE 0
        IN  /\ blk.cur_pos = 0
            /\ blk.start_pos = num * size
            /\ blk.end_pos = blk.start_pos + size

\* A request for 1024-byte blocks, NUM = 2, against the 64-byte maximum:
\* the window is [128, 192)
BlockwiseInitCapped ==
    /\ pc = "windowed"
    /\ FirstBlock2(args.options) = [present |-> TRUE, num |-> 2, szx |-> 6]
    /\ blk = [start_pos |-> 128, end_pos |-> 192, cur_pos |-> 0]

---------------------------------------------------------------------------
(* Reply and header builders *)

COAP_RESP == 2
COAP_RST == 3
COAP_CODE_EMPTY == 0
COAP_CODE_205 == 69
COAP_CT_LINK_FORMAT == 40

\* coap_get_total_hdr_len(pkt): the header and the token
coap_get_total_hdr_len(p) == HDR_LEN + p.tkl

\* coap_build_hdr(hdr, type, token, token_len, code, id), hdr at mem[pos];
\* the id is copied as the two bytes the request holds
coap_build_hdr(mem, pos, type, token, token_len, code, id) ==
    LET hdr == <<BitOr(BitOr(64, type * 16), token_len), code, id[1], id[2]>>
        m1 == memcpy(mem, pos, hdr, 0, HDR_LEN)
    IN  IF token_len # 0 THEN memcpy(m1, pos + HDR_LEN, token, 0, token_len) ELSE m1

\* coap_build_reply(pkt, code, rbuf, rlen, payload_len), rbuf at mem[1]; req
\* is the request the packet view points into
coap_build_reply(req, p, code, mem, rlen, payload_len) ==
    LET tkl == p.tkl
        len == HDR_LEN + tkl
        type == IF code # 0 THEN COAP_RESP ELSE COAP_RST
    IN  IF len + payload_len + 1 > rlen
        THEN [buf |-> mem, ret |-> -ENOSPC]
        ELSE [buf |-> coap_build_hdr(mem, 1, type,
                          SubSeq(req, p.token, p.token + tkl - 1), tkl, code,
                          SubSeq(req, 3, 4)),
              ret |-> len + payload_len]

\* coap_put_option_ct(buf, lastonum, content_type); a two-byte value is
\* copied in host byte order
coap_put_option_ct(mem, pos, lastonum, content_type) ==
    IF content_type = 0
    THEN coap_put_option(mem, pos, lastonum, COAP_OPT_CONTENT_FORMAT, <<>>, 0)
    ELSE IF content_type <= 255
    THEN coap_put_option(mem, pos, lastonum, COAP_OPT_CONTENT_FORMAT,
                         <<content_type>>, 1)
    ELSE coap_put_option(mem, pos, lastonum, COAP_OPT_CONTENT_FORMAT,
                         <<content_type % 256, content_type \div 256>>, 2)

\* coap_reply_simple(pkt, code, buf, len, ct, payload, payload_len)
coap_reply_simple(req, p, code, mem, len, ct, payload, payload_len) ==
    LET payload_start == 1 + coap_get_total_hdr_len(p)
    IN  IF payload_len # 0
        THEN LET o == coap_put_option_ct(mem, payload_start, 0, ct)
                 marker == payload_start + o.n
                 m2 == memcpy(Store(o.buf, marker, 255), marker + 1,
                              payload, 0, payload_len)
                 bufpos == marker + 1 + payload_len
             IN  coap_build_reply(req, p, code, m2, len, bufpos - payload_start)
        ELSE coap_build_reply(req, p, code, mem, len, 0)

\* coap_blockwise_size2szx(size): the exponent of the block size, less 4
RECURSIVE coap_blockwise_size2szx(_)
coap_blockwise_size2szx(size) ==
    IF size <= 16 THEN 0 ELSE 1 + coap_blockwise_size2szx(size \div 2)

\* coap_put_option_block2(buf, lastonum, blk): the low opt_len bytes of
\* (num << 4 | szx), most significant first
coap_put_option_block2(mem, pos, lastonum, b) ==
    LET szx == coap_blockwise_size2szx(b.end_pos - b.start_pos)
        num == b.start_pos \div (b.end_pos - b.start_pos)
        opt_len == IF num > 4095 THEN 3 ELSE IF num > 15 THEN 2 ELSE 1
        tmp == BitOr(num * Pow2(COAP_BLOCKWISE_NUM_OFF), szx)
        bytes == [i \in 1..opt_len |-> (tmp \div Pow2(8 * (opt_len - i))) % 256]
    IN  coap_put_option(mem, pos, lastonum, COAP_OPT_BLOCK2, bytes, opt_len)

\* coap_finish_option_block2(blk, options_pos, body_pos): the memory after
\* the call
coap_finish_option_block2(mem, b, options_pos, body_pos) ==
    LET f == coap_find_option(mem, body_pos, options_pos, NoOpt, COAP_OPT_BLOCK2)
        last == f.opt.val + f.opt.len - 1
    IN  IF f.ret = NULL THEN mem
        ELSE IF b.cur_pos >= b.end_pos
        THEN Store(mem, last, BitOr(mem[last], Pow2(COAP_BLOCKWISE_MORE_OFF)))
        ELSE mem

---------------------------------------------------------------------------
(* Replies to a parsed request: SpecReply *)

MaxResources == 2
MaxPathLen == 15
MaxPayload == 2

\* The reply memory: the output buffer is its first len bytes, and what
\* lies behind the buffer follows
MemSize == 80
ReplyLens == {4, 12, 80}

\* A resource path of n characters: "/" and letters
Path(n) == [j \in 1..n |-> IF j = 1 THEN 47 ELSE 96 + j]

\* Resource tables sorted by path: paths of increasing length
ResourceTables ==
    {t \in UNION {[1..n -> 1..MaxPathLen] : n \in 0..MaxResources} :
        \A i \in 1..(Len(t) - 1) : t[i] < t[i + 1]}

ReplyRequests ==
    {<<>>} \cup
    {<<[nr |-> COAP_OPT_BLOCK2, val |-> Block2Value(num, 0, szx)]>> :
        num \in {0, 1, 2}, szx \in {0, 1}}

\* A request GET with or without a Block2 option, parsed: the packet view
\* points into args.req
ReplyInit ==
    \E t \in ResourceTables, os \in ReplyRequests, tkl \in {0, 1} :
        LET req == <<64 + tkl, 1, 0, 1>> \o [i \in 1..tkl |-> 170]
                       \o WireOptions(os, 0)
        IN  /\ pc = "request"
            /\ args = [req |-> req, resources |-> [i \in 1..Len(t) |-> Path(t[i])]]
            /\ pkt = [tkl |-> tkl,
                      token |-> IF tkl # 0 THEN HDR_LEN + 1 ELSE NULL,
                      options |-> IF os # <<>> THEN HDR_LEN + 1 + tkl ELSE NULL,
                      payload |-> Len(req) + 1]
            /\ buf = Zeros(MemSize)
            /\ blk = NoBlk /\ opt = NoOpt /\ ret = 0
            /\ loc = [op |-> "none", len |-> 0, body_reply |-> 0, i |-> 0, bufpos |-> 0]

\* In the actions below \E r \in {call} names the result of a call, which is
\* computed once.

\* coap_well_known_core_default_handler(pkt, buf, len) up to its for loop:
\* the cursor is initialised, the Content-Format and Block2 options and the
\* payload marker are written
WellKnownCore ==
    /\ pc = "request"
    /\ \E len \in ReplyLens :
       \E payload \in {1 + coap_get_total_hdr_len(pkt)} :
       \E b0 \in {coap_blockwise_init(args.req, pkt)} :
       \E o1 \in {coap_put_option_ct(buf, payload, 0, COAP_CT_LINK_FORMAT)} :
       \E o2 \in {coap_put_option_block2(o1.buf, payload + o1.n,
                                         COAP_OPT_CONTENT_FORMAT, b0)} :
       \E marker \in {payload + o1.n + o2.n} :
            /\ buf' = Store(o2.buf, marker, 255)
            /\ blk' = b0
            /\ loc' = [op |-> "wkc", len |-> len, body_reply |-> marker + 1,
                       i |-> 1, bufpos |-> marker + 1]
    /\ pc' = "body"
    /\ UNCHANGED <<args, pkt, opt, ret>>

\* One turn of for (i = 0; i < coap_resources_numof; i++): "," between
\* entries, then "<", the path, ">"
WellKnownCoreResource ==
    /\ pc = "body"
    /\ loc.i <= Len(args.resources)
    /\ \E path \in {args.resources[loc.i]} :
       \E c0 \in {IF loc.i > 1
                  THEN coap_blockwise_put_char(blk, buf, loc.bufpos, 44)
                  ELSE [blk |-> blk, buf |-> buf, n |-> 0]} :
       \E c1 \in {coap_blockwise_put_char(c0.blk, c0.buf, loc.bufpos + c0.n, 60)} :
       \E c2 \in {coap_blockwise_put_string(c1.blk, c1.buf,
                      loc.bufpos + c0.n + c1.n, path, Len(path))} :
       \E c3 \in {coap_blockwise_put_char(c2.blk, c2.buf,
                      loc.bufpos + c0.n + c1.n + c2.n, 62)} :
            /\ buf' = c3.buf
            /\ blk' = c3.blk
            /\ loc' = [loc EXCEPT !.i = @ + 1,
                                  !.bufpos = @ + c0.n + c1.n + c2.n + c3.n]
    /\ UNCHANGED <<pc, args, pkt, opt, ret>>

\* The end of the handler: the MORE flag is patched and the header built
WellKnownCoreReturn ==
    /\ pc = "body"
    /\ loc.i > Len(args.resources)
    /\ \E payload \in {1 + coap_get_total_hdr_len(pkt)} :
       \E fin \in {coap_finish_option_block2(buf, blk, payload, loc.body_reply)} :
       \E r \in {coap_build_reply(args.req, pkt, COAP_CODE_205, fin, loc.len,
                                  loc.bufpos - payload)} :
            /\ buf' = r.buf
            /\ ret' = r.ret
    /\ pc' = "replied"
    /\ UNCHANGED <<args, pkt, blk, opt, loc>>

ReplySimple ==
    /\ pc = "request"
    /\ \E len \in ReplyLens, code \in {COAP_CODE_EMPTY, COAP_CODE_205},
          ct \in {0, COAP_CT_LINK_FORMAT}, payload_len \in 0..MaxPayload :
        LET r == coap_reply_simple(args.req, pkt, code, buf, len, ct,
                                   [j \in 1..payload_len |-> 112 + j], payload_len)
        IN  /\ buf' = r.buf
            /\ ret' = r.ret
            /\ loc' = [loc EXCEPT !.op = "simple", !.len = len]
    /\ pc' = "replied"
    /\ UNCHANGED <<args, pkt, blk, opt>>

BuildReply ==
    /\ pc = "request"
    /\ \E len \in ReplyLens, code \in {COAP_CODE_EMPTY, COAP_CODE_205},
          payload_len \in 0..MaxPayload :
        LET r == coap_build_reply(args.req, pkt, code, buf, len, payload_len)
        IN  /\ buf' = r.buf
            /\ ret' = r.ret
            /\ loc' = [loc EXCEPT !.op = "build", !.len = len]
    /\ pc' = "replied"
    /\ UNCHANGED <<args, pkt, blk, opt>>

ReplyNext ==
    \/ WellKnownCore \/ WellKnownCoreResource \/ WellKnownCoreReturn
    \/ ReplySimple \/ BuildReply

SpecReply == ReplyInit /\ [][ReplyNext]_vars

\* The MORE flag of the Block2 option the handler wrote: bit 3 of the last
\* byte of its value, the byte before the payload marker
MoreFlag == (buf[loc.body_reply - 2] \div Pow2(COAP_BLOCKWISE_MORE_OFF)) % 2 = 1

\* C2: after a body of length L went through the cursor (cur = L), the
\* outbound Block2 option has its MORE flag set when the window end is < L
\* and clear when end >= L.
MoreFlagWhenBodyContinues ==
    (pc = "replied" /\ loc.op = "wkc") =>
        /\ blk.end_pos < blk.cur_pos => MoreFlag
        /\ blk.end_pos >= blk.cur_pos => ~MoreFlag

\* What the code does: the flag is set exactly when end <= L
MoreFlagAsCoded ==
    (pc = "replied" /\ loc.op = "wkc") => (MoreFlag <=> blk.end_pos <= blk.cur_pos)

\* C7: a reply builder that returns -ENOSPC has written no byte, in the
\* output buffer or behind it.
NoWriteOnInsufficientSpace ==
    (pc = "replied" /\ ret = -ENOSPC) => buf = Zeros(MemSize)

\* What holds of C7: coap_build_reply itself writes nothing when it fails,
\* and fails exactly when header + token + payload_len + 1 > capacity
BuildReplyNoWrite ==
    (pc = "replied" /\ loc.op = "build" /\ ret = -ENOSPC) => buf = Zeros(MemSize)

---------------------------------------------------------------------------
(* coap_put_option_uri over path and query strings: SpecUri *)

MaxUriLen == 4
UriMemSize == 12

\* '/', '&', 'a', 'b'
UriChars == {47, 38, 97, 98}

UriStrings == UNION {[1..n -> UriChars] : n \in 0..MaxUriLen}

\* The inner loop while (uri_len--): uripos stops at a separator or at the
\* terminating NUL of the C string s (s[i + 1] is the character at uri + i);
\* uri_len is decremented by every test of the loop condition
RECURSIVE uri_scan(_, _, _, _)
uri_scan(s, uripos, uri_len, separator) ==
    IF uri_len = 0
    THEN [uripos |-> uripos, uri_len |-> uri_len - 1]
    ELSE IF s[uripos + 1] = separator \/ s[uripos + 1] = 0
    THEN [uripos |-> uripos, uri_len |-> uri_len - 1]
    ELSE uri_scan(s, uripos + 1, uri_len - 1, separator)

UriInit ==
    \E uri \in UriStrings, optnum \in {COAP_OPT_URI_PATH, COAP_OPT_URI_QUERY},
       lastonum \in {0, COAP_OPT_URI_PATH} :
        /\ pc = "call"
        /\ args = [uri |-> uri, optnum |-> optnum, lastonum |-> lastonum,
                   separator |-> IF optnum = COAP_OPT_URI_PATH THEN 47 ELSE 38]
        /\ buf = Zeros(UriMemSize)
        /\ loc = [uripos |-> 0, uri_len |-> 0, bufpos |-> 1, lastonum |-> lastonum]
        /\ pkt = NoPkt /\ blk = NoBlk /\ opt = NoOpt /\ ret = 0

\* coap_put_option_uri(buf, lastonum, uri, optnum), entered: an empty
\* string returns 0
PutOptionUri ==
    /\ pc = "call"
    /\ IF Len(args.uri) = 0
       THEN /\ ret' = 0
            /\ pc' = "done"
            /\ UNCHANGED loc
       ELSE /\ loc' = [loc EXCEPT !.uri_len = Len(args.uri)]
            /\ pc' = "part"
            /\ UNCHANGED ret
    /\ UNCHANGED <<args, buf, pkt, blk, opt>>

\* One turn of while (uri_len): uripos++, the part is scanned, and a part
\* that is not empty is written as an option
PutOptionUriPart ==
    /\ pc = "part"
    /\ loc.uri_len # 0
    /\ \E s \in {args.uri \o <<0>>} :
       \E part_start \in {loc.uripos + 1} :
       \E sc \in {uri_scan(s, part_start, loc.uri_len, args.separator)} :
       \E part_len \in {sc.uripos - part_start} :
       \E o \in {IF part_len # 0
                 THEN coap_put_option(buf, loc.bufpos, loc.lastonum, args.optnum,
                          SubSeq(s, part_start + 1, part_start + part_len),
                          part_len)
                 ELSE [buf |-> buf, n |-> 0]} :
            /\ buf' = o.buf
            /\ loc' = [uripos |-> sc.uripos, uri_len |-> sc.uri_len,
                       bufpos |-> loc.bufpos + o.n,
                       lastonum |-> IF part_len # 0 THEN args.optnum
                                    ELSE loc.lastonum]
    /\ UNCHANGED <<pc, args, pkt, blk, opt, ret>>

\* return bufpos - buf
PutOptionUriReturn ==
    /\ pc = "part"
    /\ loc.uri_len = 0
    /\ ret' = loc.bufpos - 1
    /\ pc' = "done"
    /\ UNCHANGED <<args, buf, pkt, blk, opt, loc>>

UriNext == PutOptionUri \/ PutOptionUriPart \/ PutOptionUriReturn

SpecUri == UriInit /\ [][UriNext]_vars

\* The segments of a string between separators that are not empty, in order
RECURSIVE Segments(_, _, _)
Segments(str, separator, cur) ==
    LET done == IF cur = <<>> THEN <<>> ELSE <<cur>>
    IN  IF str = <<>> THEN done
        ELSE IF Head(str) = separator
        THEN done \o Segments(Tail(str), separator, <<>>)
        ELSE Segments(Tail(str), separator, Append(cur, Head(str)))

\* One option per segment on the wire: the first with the given delta, the
\* following ones with delta 0
RECURSIVE SegmentOptions(_, _)
SegmentOptions(segs, delta) ==
    IF segs = <<>> THEN <<>>
    ELSE WireOption(delta, Head(segs)) \o SegmentOptions(Tail(segs), 0)

\* C8: coap_put_option_uri emits exactly one option per non-empty segment
\* of the string, in order, each with the segment's bytes as its value, the
\* first with delta optnum - lastonum and the following with delta 0, and
\* returns the number of bytes written.
UriOptionPerSegment ==
    pc = "done" =>
        LET wire == SegmentOptions(Segments(args.uri, args.separator, <<>>),
                                   args.optnum - args.lastonum)
        IN  /\ ret = Len(wire)
            /\ buf = wire \o Zeros(UriMemSize - Len(wire))

\* What the code does: the first character of the string is never looked
\* at, and the options are those of the segments of the rest (a first delta
\* below 13, which coap_put_option encodes as the format defines it)
UriOptionPerSegmentOfTail ==
    (pc = "done" /\ args.uri # <<>> /\ args.optnum - args.lastonum < 13) =>
        LET wire == SegmentOptions(Segments(Tail(args.uri), args.separator, <<>>),
                                   args.optnum - args.lastonum)
        IN  /\ ret = Len(wire)
            /\ buf = wire \o Zeros(UriMemSize - Len(wire))

\* The scan ends on the terminating NUL with the count at 0: no character
\* behind the string is read
UriScanInString ==
    pc = "part" => /\ loc.uri_len >= 0
                   /\ loc.uripos <= Len(args.uri)
                   /\ loc.uri_len = 0 <=> (loc.uripos = Len(args.uri))

=============================================================================
